---- MODULE Spec2Model ----
(***************************************************************************)
(* SpeakStudio: the speech-synthesis fallback chain (functions.py          *)
(* tts_synthesize, main.py tts_bytes), the comparison normaliser           *)
(* (functions.py normalize_for_compare) and the similarity scorer          *)
(* (main.py similarity_score, difflib.SequenceMatcher.ratio).              *)
(*                                                                         *)
(* Strings are sequences of one-character strings.  Audio byte strings are *)
(* records naming the provider that produced them, the request they were   *)
(* produced for and their length.                                          *)
(***************************************************************************)
EXTENDS Integers, Sequences, FiniteSets, TLC

VARIABLES
    pc,          \* position of the current synthesis call
    hasEdge,     \* functions._HAS_EDGE_TTS
    ffmpegPath,  \* functions._FFMPEG_PATH is set
    gttsOk,      \* main.GTTS_OK
    args,        \* arguments of the current tts_synthesize / tts_bytes call
    edgeOut,     \* what the primary provider did in this call
    gttsOut,     \* what the secondary provider did in this call
    ffOut,       \* what the transcoder did in this call
    audio_mp3,   \* local audio_mp3 of tts_synthesize
    result,      \* returned (bytes, mime) pair, or the bytes|None of tts_bytes
    exc,         \* exception that escaped the call
    calls,       \* number of invocations of each collaborator in this call
    ui,          \* what render_inline_play_button showed
    s_in,        \* input of normalize_for_compare
    s_out,       \* normalize_for_compare(s_in)
    s_out2,      \* normalize_for_compare(s_out)
    ref,         \* reference sentence of similarity_score
    hyp,         \* hypothesis of similarity_score
    score,       \* similarity_score(ref, hyp) as <<2*matches, total length>>
    words,       \* shadowing run: the words of the reference sentence
    kept,        \* shadowing run: which words of the reference were spoken
    prevScore,   \* score before the last inserted word
    html,        \* shadowing run: diff_html(ref, hyp), as the list of its pieces
    fb,          \* shadowing run: the feedback lines shown for the utterance
    full_text,   \* argument of extract_english_for_tts
    max_len,     \* argument of extract_english_for_tts
    eng,         \* extract_english_for_tts(full_text, max_len)
    chat_env,    \* api_client: resolved API key, OpenAI SDK imported, OPENAI_MODEL
    chat_pc,     \* position of the current api_client.chat call
    messages,    \* chat: argument messages
    model,       \* chat: argument, then local, model
    client,      \* chat: the client _make_client returned
    resp,        \* what the completion request did in this call
    requests,    \* the completion requests sent in this call
    reply,       \* what chat returned
    mode,              \* main.py: the page the last script run showed
    daily_messages,    \* st.session_state.daily_messages (<<>>: key absent)
    roleplay_messages, \* st.session_state["roleplay_messages::s::t"] per (s, t)
    key_name,          \* the (scenario, tone) of the last Roleplay run
    user_text,         \* what st.chat_input returned in the last run
    llm_result,        \* what llm_chat returned in the last run
    inputs,            \* the chat inputs handled so far in the session
    gtts_ok,           \* main.py GTTS_OK: the gtts import succeeded
    tts_cache,         \* the st.cache_data entries of tts_cached, per key
    provider_log,      \* the gTTS syntheses requested so far, with their results
    cached_call,       \* the arguments of the last tts_cached call
    cached_ret,        \* what the last tts_cached call returned
    counters,          \* table counters of data/counter.db: rows <<name, value>>
    db_lock,           \* the session holding SQLite's write lock, 0 when free
    initial_views,     \* page_views before the first session (0 without a row)
    wal,               \* the sessions whose increment was committed, in order
    view_counted,      \* st.session_state.view_counted per session
    view_pc,           \* position of each session's increment_and_get_page_views call
    txn_value,         \* the value written inside a session's open transaction
    total,             \* what the session's last call returned
    view_calls,        \* the calls each session has made (one per script run)
    phase        \* position of the pure-function runs

vars == <<pc, hasEdge, ffmpegPath, gttsOk, args, edgeOut, gttsOut, ffOut,
          audio_mp3, result, exc, calls, ui, s_in, s_out, s_out2,
          ref, hyp, score, words, kept, prevScore, html, fb,
          full_text, max_len, eng,
          chat_env, chat_pc, messages, model, client, resp, requests, reply,
          mode, daily_messages, roleplay_messages, key_name, user_text, llm_result, inputs,
          gtts_ok, tts_cache, provider_log, cached_call, cached_ret,
          counters, db_lock, initial_views, wal, view_counted, view_pc, txn_value,
          total, view_calls,
          phase>>

ttsVars == <<pc, hasEdge, ffmpegPath, gttsOk, args, edgeOut, gttsOut, ffOut,
             audio_mp3, result, exc, calls, ui>>
normVars == <<s_in, s_out, s_out2>>
simVars == <<ref, hyp, score, words, kept, prevScore, html, fb>>
extractVars == <<full_text, max_len, eng>>
chatVars == <<chat_env, chat_pc, messages, model, client, resp, requests, reply>>
historyVars == <<mode, daily_messages, roleplay_messages, key_name, user_text, llm_result,
                 inputs>>
cacheVars == <<gtts_ok, tts_cache, provider_log, cached_call, cached_ret>>
counterVars == <<counters, db_lock, initial_views, wal, view_counted, view_pc, txn_value,
                 total, view_calls>>
appVars == <<extractVars, chatVars, historyVars, cacheVars, counterVars>>

----------------------------------------------------------------------------
(* Audio values *)

None == [src |-> "None", text |-> "", lang |-> "", voice |-> "", rate |-> 0, len |-> 0]

NoArgs == [fn |-> "none", text |-> "", lang_code |-> "", rate_pct |-> 0,
           prefer_edge |-> FALSE, edge_voice |-> "", force_wav |-> FALSE,
           force_gtts |-> FALSE]

NoOut == [kind |-> "notcalled", rc |-> 0, len |-> 0]

NoResult == [set |-> FALSE, bytes |-> None, mime |-> ""]

Texts == {"Hello.", "annyeong"}
LangCodes == {"en", "ko", "ja"}
Rates == {-50, 0, 50}
EdgeVoiceArgs == {"", "en-US-GuyNeural"}

\* lengths the primary provider may stream back (0 = silent, threshold 1024)
EdgeLens == {0, 1023, 1024, 2000}
\* lengths the secondary provider may return
GttsLens == {512, 4096}
\* lengths of the transcoder's stdout (WAV header is 44 bytes)
WavLens == {0, 44, 45, 32000}
ReturnCodes == {0, 1}

\* constants.LANGS[...]["tts"] / ["edge_voices"][0], with the DEFAULT_LANG fallback
get_lang_conf(lang_code) ==
    IF lang_code = "en"
    THEN [tts |-> "en", edge_voices |-> <<"en-US-JennyNeural", "en-US-GuyNeural">>]
    ELSE [tts |-> "ko", edge_voices |-> <<"ko-KR-SunHiNeural", "ko-KR-HyunsuNeural">>]

\* functions.py:223-224
ResolveVoice(lang_code, edge_voice) ==
    LET voices == get_lang_conf(lang_code).edge_voices
    IN IF edge_voice # "" THEN edge_voice
       ELSE IF Len(voices) > 0 THEN voices[1] ELSE ""

UsePrimaryNoFlag(a) ==
    /\ a.prefer_edge /\ hasEdge
    /\ ResolveVoice(a.lang_code, a.edge_voice) # ""

\* functions.py:222 and 225: the primary provider is attempted
UsePrimary(a) ==
    /\ ~a.force_gtts /\ a.prefer_edge /\ hasEdge
    /\ ResolveVoice(a.lang_code, a.edge_voice) # ""

\* what edge_tts streams for (text, voice, rate)
EdgeBytes(a, n) ==
    [src |-> "edge", text |-> a.text, lang |-> "",
     voice |-> ResolveVoice(a.lang_code, a.edge_voice), rate |-> a.rate_pct, len |-> n]

GttsBytesRated(text, lang_code, n) ==
    [src |-> "gtts", text |-> text, lang |-> get_lang_conf(lang_code).tts,
     voice |-> "", rate |-> args.rate_pct, len |-> n]

\* what gTTS writes for (text, conf["tts"]) -- no rate, no voice
GttsBytes(text, lang_code, n) ==
    [src |-> "gtts", text |-> text, lang |-> get_lang_conf(lang_code).tts,
     voice |-> "", rate |-> 0, len |-> n]

\* what ffmpeg writes to stdout for the given MP3 input
WavBytes(mp3, n) ==
    [src |-> "ffmpeg", text |-> mp3.text, lang |-> mp3.lang,
     voice |-> mp3.voice, rate |-> mp3.rate, len |-> n]

\* functions.py:228  "if b and len(b) >= 1024"
PrimaryAcceptedStrict(o) == o.kind = "bytes" /\ o.len > 1024

PrimaryAcceptedAny(o) == o.kind = "bytes"

PrimaryAccepted(o) == o.kind = "bytes" /\ o.len > 0 /\ o.len >= 1024

\* functions.py:199-201  returncode == 0 and len(stdout) > 44, exceptions give None
WavAcceptedLoose(o) == o.kind = "exit" /\ o.len > 44

WavAccepted(o) == o.kind = "exit" /\ o.rc = 0 /\ o.len > 44

----------------------------------------------------------------------------
(* tts_synthesize, functions.py:204-241 *)

ArgSet ==
    [fn : {"tts_synthesize"}, text : Texts, lang_code : LangCodes, rate_pct : Rates,
     prefer_edge : BOOLEAN, edge_voice : EdgeVoiceArgs, force_wav : BOOLEAN,
     force_gtts : BOOLEAN]

\* entry: audio_mp3 = None, then the guard of line 222/225
Call ==
    /\ pc = "idle"
    /\ \E a \in ArgSet :
         /\ args' = a
         /\ pc' = IF UsePrimary(a) THEN "TryPrimary" ELSE "TryFallback"
    /\ audio_mp3' = None
    /\ edgeOut' = NoOut /\ gttsOut' = NoOut /\ ffOut' = NoOut
    /\ result' = NoResult /\ exc' = "none" /\ ui' = "none"
    /\ calls' = [edge |-> 0, gtts |-> 0, ffmpeg |-> 0]
    /\ UNCHANGED <<hasEdge, ffmpegPath, gttsOk>>

\* line 227: asyncio.run(_edge_tts_bytes_async(...)) returns bytes or raises
TryPrimary ==
    /\ pc = "TryPrimary"
    /\ \E o \in {[kind |-> "raise", rc |-> 0, len |-> 0]}
             \cup {[kind |-> "bytes", rc |-> 0, len |-> n] : n \in EdgeLens} :
         edgeOut' = o
    /\ calls' = [calls EXCEPT !.edge = @ + 1]
    /\ pc' = "ValidatePrimary"
    /\ UNCHANGED <<hasEdge, ffmpegPath, gttsOk, args, gttsOut, ffOut, audio_mp3,
                   result, exc, ui>>

ValidatePrimaryRetry ==
    /\ pc = "ValidatePrimary"
    /\ audio_mp3' = IF PrimaryAccepted(edgeOut) THEN EdgeBytes(args, edgeOut.len) ELSE None
    /\ pc' = IF audio_mp3' # None THEN "Done"
             ELSE IF calls.edge < 2 THEN "TryPrimary" ELSE "TryFallback"
    /\ UNCHANGED <<hasEdge, ffmpegPath, gttsOk, args, edgeOut, gttsOut, ffOut,
                   result, exc, calls, ui>>

\* lines 228-233: threshold test, the except clause, and "if audio_mp3 is None"
ValidatePrimary ==
    /\ pc = "ValidatePrimary"
    /\ audio_mp3' = IF PrimaryAccepted(edgeOut) THEN EdgeBytes(args, edgeOut.len) ELSE None
    /\ pc' = IF audio_mp3' = None THEN "TryFallback" ELSE "Done"
    /\ UNCHANGED <<hasEdge, ffmpegPath, gttsOk, args, edgeOut, gttsOut, ffOut,
                   result, exc, calls, ui>>

TryFallbackSwallow ==
    /\ pc = "TryFallback"
    /\ calls' = [calls EXCEPT !.gtts = @ + 1]
    /\ \E o \in {[kind |-> "raise", rc |-> 0, len |-> 0]}
             \cup {[kind |-> "bytes", rc |-> 0, len |-> n] : n \in GttsLens} :
         /\ gttsOut' = o
         /\ audio_mp3' = IF o.kind = "raise" THEN None
                         ELSE GttsBytes(args.text, args.lang_code, o.len)
    /\ pc' = "Done"
    /\ UNCHANGED <<hasEdge, ffmpegPath, gttsOk, args, edgeOut, ffOut, result, exc, ui>>

\* line 234: _gtts_bytes(text, lang_code); its exception is not caught
TryFallback ==
    /\ pc = "TryFallback"
    /\ calls' = [calls EXCEPT !.gtts = @ + 1]
    /\ \E o \in {[kind |-> "raise", rc |-> 0, len |-> 0]}
             \cup {[kind |-> "bytes", rc |-> 0, len |-> n] : n \in GttsLens} :
         /\ gttsOut' = o
         /\ IF o.kind = "raise"
            THEN /\ exc' = "gtts" /\ pc' = "Raised"
                 /\ UNCHANGED audio_mp3
            ELSE /\ audio_mp3' = GttsBytes(args.text, args.lang_code, o.len)
                 /\ pc' = "Done"
                 /\ UNCHANGED exc
    /\ UNCHANGED <<hasEdge, ffmpegPath, gttsOk, args, edgeOut, ffOut, result, ui>>

\* lines 236-241 with _mp3_to_wav_bytes (183-201)
Done ==
    /\ pc = "Done"
    /\ IF args.force_wav /\ ffmpegPath
       THEN /\ \E o \in {[kind |-> "raise", rc |-> 0, len |-> 0]}
                    \cup {[kind |-> "exit", rc |-> r, len |-> n] :
                            r \in ReturnCodes, n \in WavLens} :
                 /\ ffOut' = o
                 /\ result' = IF WavAccepted(o)
                              THEN [set |-> TRUE, bytes |-> WavBytes(audio_mp3, o.len),
                                    mime |-> "audio/wav"]
                              ELSE [set |-> TRUE, bytes |-> audio_mp3,
                                    mime |-> "audio/mpeg"]
            /\ calls' = [calls EXCEPT !.ffmpeg = @ + 1]
       ELSE /\ result' = [set |-> TRUE, bytes |-> audio_mp3, mime |-> "audio/mpeg"]
            /\ UNCHANGED <<ffOut, calls>>
    /\ pc' = "Returned"
    /\ UNCHANGED <<hasEdge, ffmpegPath, gttsOk, args, edgeOut, gttsOut, audio_mp3,
                   exc, ui>>

----------------------------------------------------------------------------
(* main.py tts_bytes (76-87) and render_inline_play_button (394-401) *)

\* tts_bytes: every failure of gTTS is turned into None
TtsBytes ==
    /\ pc = "idle"
    /\ \E t \in Texts, l \in {"en"} :
         /\ args' = [NoArgs EXCEPT !.fn = "tts_bytes", !.text = t, !.lang_code = l]
         /\ IF ~gttsOk
            THEN /\ gttsOut' = NoOut
                 /\ result' = [set |-> TRUE, bytes |-> None, mime |-> ""]
                 /\ calls' = [edge |-> 0, gtts |-> 0, ffmpeg |-> 0]
            ELSE /\ calls' = [edge |-> 0, gtts |-> 1, ffmpeg |-> 0]
                 /\ \E o \in {[kind |-> "raise", rc |-> 0, len |-> 0]}
                         \cup {[kind |-> "bytes", rc |-> 0, len |-> n] : n \in GttsLens} :
                      /\ gttsOut' = o
                      /\ result' = [set |-> TRUE,
                                    bytes |-> IF o.kind = "raise" THEN None
                                              ELSE [src |-> "gtts", text |-> t, lang |-> l,
                                                    voice |-> "", rate |-> 0, len |-> o.len],
                                    mime |-> ""]
    /\ audio_mp3' = None
    /\ edgeOut' = NoOut /\ ffOut' = NoOut /\ exc' = "none" /\ ui' = "none"
    /\ pc' = "Returned"
    /\ UNCHANGED <<hasEdge, ffmpegPath, gttsOk>>

\* render_inline_play_button: "if not mp3_bytes" shows the failure message
Render ==
    /\ pc = "Returned"
    /\ ui = "none"
    /\ ui' = IF result.bytes = None \/ result.bytes.len = 0 THEN "warn" ELSE "player"
    /\ UNCHANGED <<pc, hasEdge, ffmpegPath, gttsOk, args, edgeOut, gttsOut, ffOut,
                   audio_mp3, result, exc, calls>>

\* the caller goes on to its next synthesis call
NextCall ==
    /\ pc \in {"Returned", "Raised"}
    /\ pc = "Returned" => ui # "none"
    /\ pc' = "idle"
    /\ args' = NoArgs /\ audio_mp3' = None
    /\ edgeOut' = NoOut /\ gttsOut' = NoOut /\ ffOut' = NoOut
    /\ result' = NoResult /\ exc' = "none" /\ ui' = "none"
    /\ calls' = [edge |-> 0, gtts |-> 0, ffmpeg |-> 0]
    /\ UNCHANGED <<hasEdge, ffmpegPath, gttsOk>>

----------------------------------------------------------------------------
(* Characters.  A character is a string naming it: "a" "b" "c" "g" "k" "n" *)
(* "o" "t" "y" lower-case letters, "A" "C" "T" upper-case letters, "." a   *)
(* punctuation mark, "_" the underscore, " " and "TAB" whitespace, "GA"    *)
(* "JEO" "NEUN" the Hangul syllables U+AC00 U+C800 U+B294, "CHO" and       *)
(* "JUNG" the conjoining jamo U+1100 and U+1161 whose canonical            *)
(* composition is U+AC00.  "j" "p" "J" "P" are further letters, "NL" is    *)
(* the newline.                                                            *)

MaxLen == 3

NormChars == {"a", "A", ".", "_", " ", "TAB", "GA", "CHO", "JUNG"}

RECURSIVE StringsUpTo(_, _)
StringsUpTo(chars, n) ==
    IF n = 0 THEN {<<>>}
    ELSE LET shorter == StringsUpTo(chars, n - 1)
         IN shorter \cup {Append(s, c) : s \in {x \in shorter : Len(x) = n - 1}, c \in chars}

IsBlank(c) == c = " "

IsSpace(c) == c \in {" ", "TAB", "NL"}

IsHangul(c) == c \in {"GA", "JEO", "NEUN"}

\* Python's \w under re.UNICODE: letters, digits and the underscore
IsWordChar(c) == c \in {"a", "b", "c", "g", "j", "k", "n", "o", "p", "t", "y",
                        "A", "C", "J", "P", "T",
                        "_", "GA", "CHO", "JUNG", "JEO", "NEUN"}

LowerChar(c) ==
    IF c = "A" THEN "a"
    ELSE IF c = "C" THEN "c"
    ELSE IF c = "J" THEN "j"
    ELSE IF c = "P" THEN "p"
    ELSE IF c = "T" THEN "t"
    ELSE c

\* str.lower()
Lower(s) == [i \in 1..Len(s) |-> LowerChar(s[i])]

\* str.strip()
Strip(s) ==
    LET keep == {i \in 1..Len(s) : ~IsSpace(s[i])}
    IN IF keep = {} THEN <<>>
       ELSE SubSeq(s, CHOOSE i \in keep : \A j \in keep : i <= j,
                      CHOOSE i \in keep : \A j \in keep : i >= j)

\* unicodedata.normalize("NFC", s): canonical composition of adjacent pairs
RECURSIVE NFC(_)
NFC(s) ==
    IF Len(s) < 2 THEN s
    ELSE IF s[1] = "CHO" /\ s[2] = "JUNG"
         THEN <<"GA">> \o NFC(SubSeq(s, 3, Len(s)))
         ELSE <<s[1]>> \o NFC(Tail(s))

\* _PUNCT_RE.sub("", s) with _PUNCT_RE = [^\w\s가-힣]
RemovePunct(s) == SelectSeq(s, LAMBDA c : IsWordChar(c) \/ IsSpace(c) \/ IsHangul(c))

\* re.sub(r"\s+", " ", s)
RECURSIVE CollapseSpaces(_)
CollapseSpaces(s) ==
    IF s = <<>> THEN <<>>
    ELSE IF IsSpace(s[1])
         THEN IF Len(s) >= 2 /\ IsSpace(s[2])
              THEN CollapseSpaces(Tail(s))
              ELSE <<" ">> \o CollapseSpaces(Tail(s))
         ELSE <<s[1]>> \o CollapseSpaces(Tail(s))

\* functions.py:247-251
normalize_for_compare(s) ==
    CollapseSpaces(RemovePunct(Strip(Lower(NFC(s)))))

\* normalize_for_compare applied to an input string
Normalize ==
    /\ phase = "input"
    /\ s_out' = normalize_for_compare(s_in)
    /\ phase' = "once"
    /\ UNCHANGED <<s_in, s_out2>>

\* normalize_for_compare applied to its own output
NormalizeAgain ==
    /\ phase = "once"
    /\ s_out2' = normalize_for_compare(s_out)
    /\ phase' = "twice"
    /\ UNCHANGED <<s_in, s_out>>

----------------------------------------------------------------------------
(* difflib.SequenceMatcher(None, a, b).ratio() as similarity_score uses it: *)
(* no junk predicate, autojunk left at its default.                        *)

MaxSimLen == 2
PadLen == 200

SimChars == {"a", "b", "A", " ", "."}

\* a long run of one letter, to reach difflib's autojunk threshold
PadA == [i \in 1..PadLen |-> "a"]

SimStrings ==
    StringsUpTo(SimChars, MaxSimLen)
        \cup {p \o PadA : p \in StringsUpTo({"a", "b", "c"}, 1)}

\* __chain_b: with autojunk and len(b) >= 200, elements occurring in more
\* than len(b) // 100 + 1 places of b are "popular" and dropped from b2j
PopularAnyLength(b) ==
    {c \in {b[j] : j \in 1..Len(b)} :
        Cardinality({j \in 1..Len(b) : b[j] = c}) > (Len(b) \div 100) + 1}

Popular(b) ==
    IF Len(b) >= 200
    THEN {c \in {b[j] : j \in 1..Len(b)} :
            Cardinality({j \in 1..Len(b) : b[j] = c}) > (Len(b) \div 100) + 1}
    ELSE {}

\* the one value of a singleton set; {F(x) : x \in {e}} evaluates e once
The(S) == CHOOSE v \in S : TRUE

\* j2len: length of the run of equal, indexed (non-popular) elements that ends
\* at a[i], b[j] inside a[alo..ahi-1], b[blo..bhi-1]
RECURSIVE RunLen(_, _, _, _, _, _, _)
RunLen(a, b, pop, alo, blo, i, j) ==
    IF i < alo \/ j < blo \/ a[i] # b[j] \/ b[j] \in pop THEN 0
    ELSE 1 + RunLen(a, b, pop, alo, blo, i - 1, j - 1)

\* every pair the scan of find_longest_match visits, with its run length k;
\* ranges are half-open, indices 1-based
Runs(a, b, pop, alo, ahi, blo, bhi) ==
    {[i |-> e[1], j |-> e[2], k |-> RunLen(a, b, pop, alo, blo, e[1], e[2])] :
        e \in {e \in (alo..(ahi - 1)) \X (blo..(bhi - 1)) :
                  a[e[1]] = b[e[2]] /\ b[e[2]] \notin pop}}

\* the scan is by i, then by j, and only a strictly longer run replaces the best
ScanBefore(r, q) ==
    r.k > q.k \/ (r.k = q.k /\ (r.i < q.i \/ (r.i = q.i /\ r.j <= q.j)))

LongestRun(R, alo, blo) ==
    IF R = {} THEN [i |-> alo, j |-> blo, size |-> 0]
    ELSE The({[i |-> r.i - r.k + 1, j |-> r.j - r.k + 1, size |-> r.k] :
                 r \in {r \in R : \A q \in R : ScanBefore(r, q)}})

\* the extension of the block over equal elements before it ...
RECURSIVE BackLen(_, _, _, _, _, _)
BackLen(a, b, alo, blo, i, j) ==
    IF i > alo /\ j > blo /\ a[i - 1] = b[j - 1]
    THEN 1 + BackLen(a, b, alo, blo, i - 1, j - 1)
    ELSE 0

\* ... and after it
RECURSIVE FwdLen(_, _, _, _, _, _)
FwdLen(a, b, ahi, bhi, i, j) ==
    IF i < ahi /\ j < bhi /\ a[i] = b[j]
    THEN 1 + FwdLen(a, b, ahi, bhi, i + 1, j + 1)
    ELSE 0

ExtendBack(a, b, alo, blo, m) ==
    The({[i |-> m.i - d, j |-> m.j - d, size |-> m.size + d] :
            d \in {BackLen(a, b, alo, blo, m.i, m.j)}})

ExtendFwd(a, b, ahi, bhi, m) ==
    [m EXCEPT !.size = @ + FwdLen(a, b, ahi, bhi, m.i + m.size, m.j + m.size)]

\* find_longest_match(alo, ahi, blo, bhi)
find_longest_match(a, b, pop, alo, ahi, blo, bhi) ==
    The({ExtendFwd(a, b, ahi, bhi, m1) :
            m1 \in {ExtendBack(a, b, alo, blo, m0) :
                      m0 \in {LongestRun(R, alo, blo) :
                                R \in {Runs(a, b, pop, alo, ahi, blo, bhi)}}}})

\* get_matching_blocks: total size of the blocks found by the recursive split
RECURSIVE MatchTotal(_, _, _, _, _, _, _)
RECURSIVE SplitTotal(_, _, _, _, _, _, _, _)
SplitTotal(a, b, pop, alo, ahi, blo, bhi, m) ==
    IF m.size = 0 THEN 0
    ELSE m.size
         + (IF alo < m.i /\ blo < m.j
            THEN MatchTotal(a, b, pop, alo, m.i, blo, m.j) ELSE 0)
         + (IF m.i + m.size < ahi /\ m.j + m.size < bhi
            THEN MatchTotal(a, b, pop, m.i + m.size, ahi, m.j + m.size, bhi) ELSE 0)

MatchTotal(a, b, pop, alo, ahi, blo, bhi) ==
    The({SplitTotal(a, b, pop, alo, ahi, blo, bhi, m) :
            m \in {find_longest_match(a, b, pop, alo, ahi, blo, bhi)}})

\* ratio(): 2.0 * matches / (len(a) + len(b)), and 1.0 when both are empty;
\* the float is kept as the pair <<numerator, denominator>>
ratio(a, b) ==
    IF Len(a) + Len(b) = 0 THEN <<1, 1>>
    ELSE The({<<2 * MatchTotal(a, b, pop, 1, Len(a) + 1, 1, Len(b) + 1), Len(a) + Len(b)>> :
                 pop \in {Popular(b)}})

similarity_score_nolower(r, h) ==
    The({ratio(a, b) : a \in {Strip(r)}, b \in {Strip(h)}})

\* main.py:127-128
similarity_score(r, h) ==
    The({ratio(a, b) : a \in {Strip(Lower(r))}, b \in {Strip(Lower(h))}})

\* comparisons of two ratios
IsOne(x) == x[2] # 0 /\ x[1] = x[2]
IsZero(x) == x[2] # 0 /\ x[1] = 0
Less(x, y) == x[1] * y[2] < y[1] * x[2]

----------------------------------------------------------------------------
(* difflib.ndiff(a, b) on two token lists, as diff_html uses it: a Differ  *)
(* with no line junk and IS_CHARACTER_JUNK.  A line of the delta is the    *)
(* string of its two-character tag and its text; "NL" is the newline.      *)

\* the first token of s ends at its last character before the next whitespace
TokenEnd(s) ==
    CHOOSE n \in 1..Len(s) :
        /\ n = Len(s) \/ IsSpace(s[n + 1])
        /\ \A k \in 1..n : ~IsSpace(s[k])

\* str.split(): the maximal runs of non-whitespace characters
RECURSIVE Split(_)
Split(s) ==
    IF s = <<>> THEN <<>>
    ELSE IF IsSpace(s[1]) THEN Split(Tail(s))
    ELSE The({<<SubSeq(s, 1, n)>> \o Split(SubSeq(s, n + 1, Len(s))) :
                 n \in {TokenEnd(s)}})

DumpReversed(tag, x, lo, hi) == [k \in 1..(hi - lo) |-> <<tag, " ">> \o x[hi - k]]

\* _dump(tag, x, lo, hi): one line '%s %s' % (tag, x[i]) for i in range(lo, hi)
Dump(tag, x, lo, hi) == [k \in 1..(hi - lo) |-> <<tag, " ">> \o x[lo + k - 1]]

\* _plain_replace: the shorter block is dumped first
PlainReplace(a, alo, ahi, b, blo, bhi) ==
    IF bhi - blo < ahi - alo
    THEN Dump("+", b, blo, bhi) \o Dump("-", a, alo, ahi)
    ELSE Dump("-", a, alo, ahi) \o Dump("+", b, blo, bhi)

Repeat(c, n) == [k \in 1..n |-> c]

\* atags and btags of _fancy_replace, from the opcodes of the synch pair:
\* '^' over a replaced range, '-' deleted, '+' inserted, ' ' equal
RECURSIVE IntralineTags(_, _, _, _, _, _, _)
IntralineSplit(a, b, pop, alo, ahi, blo, bhi, m) ==
    IF m.size = 0
    THEN [a |-> Repeat("^", ahi - alo), b |-> Repeat("^", bhi - blo)]
    ELSE The({[a |-> l.a \o Repeat(" ", m.size) \o r.a,
               b |-> l.b \o Repeat(" ", m.size) \o r.b] :
                 l \in {IntralineTags(a, b, pop, alo, m.i, blo, m.j)},
                 r \in {IntralineTags(a, b, pop, m.i + m.size, ahi, m.j + m.size, bhi)}})

IntralineTags(a, b, pop, alo, ahi, blo, bhi) ==
    IF alo >= ahi THEN [a |-> <<>>, b |-> Repeat("+", bhi - blo)]
    ELSE IF blo >= bhi THEN [a |-> Repeat("-", ahi - alo), b |-> <<>>]
    ELSE The({IntralineSplit(a, b, pop, alo, ahi, blo, bhi, m) :
                 m \in {find_longest_match(a, b, pop, alo, ahi, blo, bhi)}})

\* str.rstrip() of a tag string
RECURSIVE RStrip(_)
RStrip(s) ==
    IF s = <<>> THEN <<>>
    ELSE IF s[Len(s)] = " " THEN RStrip(SubSeq(s, 1, Len(s) - 1))
    ELSE s

HintLine(tags) ==
    IF RStrip(tags) = <<>> THEN <<>> ELSE << <<"?", " ">> \o RStrip(tags) \o <<"NL">> >>

\* _qformat: '- ' aline, its '? ' line if any, '+ ' bline, its '? ' line if any
QFormat(aline, bline, t) ==
    << <<"-", " ">> \o aline >> \o HintLine(t.a)
        \o << <<"+", " ">> \o bline >> \o HintLine(t.b)

\* the pairs of unequal lines that _fancy_replace finds similar: ratio above
\* best_ratio = 0.74 (real_quick_ratio and quick_ratio are upper bounds of
\* ratio, so the three tests together are the test on ratio)
ClosePairs(a, alo, ahi, b, blo, bhi) ==
    {c \in {[i |-> e[1], j |-> e[2], r |-> ratio(a[e[1]], b[e[2]])] :
                e \in {e \in (alo..(ahi - 1)) \X (blo..(bhi - 1)) : a[e[1]] # b[e[2]]}} :
        100 * c.r[1] > 74 * c.r[2]}

\* the pairs of identical lines
EqualPairs(a, alo, ahi, b, blo, bhi) ==
    {[i |-> e[1], j |-> e[2]] :
        e \in {e \in (alo..(ahi - 1)) \X (blo..(bhi - 1)) : a[e[1]] = b[e[2]]}}

\* the search is by j, then by i
SearchedBefore(p, q) == p.j < q.j \/ (p.j = q.j /\ p.i <= q.i)

\* only a strictly better ratio replaces the best pair
BestPair(C) ==
    The({c \in C : \A q \in C : Less(q.r, c.r) \/ (~Less(c.r, q.r) /\ SearchedBefore(c, q))})

\* eqi, eqj: the first identical pair met
FirstEqual(E) == The({p \in E : \A q \in E : SearchedBefore(p, q)})

RECURSIVE FancyReplace(_, _, _, _, _, _)

\* _fancy_helper
FancyHelper(a, alo, ahi, b, blo, bhi) ==
    IF alo < ahi
    THEN IF blo < bhi THEN FancyReplace(a, alo, ahi, b, blo, bhi)
         ELSE Dump("-", a, alo, ahi)
    ELSE IF blo < bhi THEN Dump("+", b, blo, bhi)
    ELSE <<>>

\* the diffs before the synch point, the synch pair, the diffs after it
Synch(a, alo, ahi, b, blo, bhi, p, mid) ==
    FancyHelper(a, alo, p.i, b, blo, p.j) \o mid
        \o FancyHelper(a, p.i + 1, ahi, b, p.j + 1, bhi)

SynchClose(a, alo, ahi, b, blo, bhi, p) ==
    Synch(a, alo, ahi, b, blo, bhi, p,
          QFormat(a[p.i], b[p.j],
                  IntralineTags(a[p.i], b[p.j], Popular(b[p.j]),
                                1, Len(a[p.i]) + 1, 1, Len(b[p.j]) + 1)))

FancyChoose(a, alo, ahi, b, blo, bhi, C, E) ==
    IF C # {} /\ 4 * BestPair(C).r[1] >= 3 * BestPair(C).r[2]
    THEN SynchClose(a, alo, ahi, b, blo, bhi, BestPair(C))
    ELSE IF E = {} THEN PlainReplace(a, alo, ahi, b, blo, bhi)
    ELSE The({Synch(a, alo, ahi, b, blo, bhi, p, << <<" ", " ">> \o a[p.i] >>) :
                 p \in {FirstEqual(E)}})

\* _fancy_replace: synch on the best pair with ratio >= cutoff = 0.75, else on
\* the first identical pair, else a plain replace
FancyReplace(a, alo, ahi, b, blo, bhi) ==
    The({FancyChoose(a, alo, ahi, b, blo, bhi, C, E) :
            C \in {ClosePairs(a, alo, ahi, b, blo, bhi)},
            E \in {EqualPairs(a, alo, ahi, b, blo, bhi)}})

\* Differ.compare over get_opcodes(): the matching blocks are dumped with
\* ' ', and each gap between them is a delete, an insert or a replace
RECURSIVE Compare(_, _, _, _, _, _, _)
CompareSplit(a, b, pop, alo, ahi, blo, bhi, m) ==
    IF m.size = 0 THEN FancyReplace(a, alo, ahi, b, blo, bhi)
    ELSE Compare(a, b, pop, alo, m.i, blo, m.j)
            \o Dump(" ", a, m.i, m.i + m.size)
            \o Compare(a, b, pop, m.i + m.size, ahi, m.j + m.size, bhi)

Compare(a, b, pop, alo, ahi, blo, bhi) ==
    IF alo >= ahi THEN Dump("+", b, blo, bhi)
    ELSE IF blo >= bhi THEN Dump("-", a, alo, ahi)
    ELSE The({CompareSplit(a, b, pop, alo, ahi, blo, bhi, m) :
                 m \in {find_longest_match(a, b, pop, alo, ahi, blo, bhi)}})

ndiff(a, b) == Compare(a, b, Popular(b), 1, Len(a) + 1, 1, Len(b) + 1)

\* token.startswith(p)
StartsWith(line, p) == Len(line) >= Len(p) /\ SubSeq(line, 1, Len(p)) = p

\* the piece of markup diff_html makes of one line: a span of class 'del' or
\* 'add' around token[2:], or token[2:] alone ("keep")
Piece(line) ==
    [cls  |-> IF StartsWith(line, <<"-", " ">>) THEN "del"
              ELSE IF StartsWith(line, <<"+", " ">>) THEN "add"
              ELSE "keep",
     text |-> SubSeq(line, 3, Len(line))]

IsHintOrKeep(line) == StartsWith(line, <<"?", " ">>) \/ StartsWith(line, <<" ", " ">>)

\* elif token.startswith("? "): pass
IsHint(line) == StartsWith(line, <<"?", " ">>)

\* main.py:131-142; the result is the list of pieces that " ".join joins
diff_html(r, h) ==
    The({[k \in 1..Len(lines) |-> Piece(lines[k])] :
            lines \in {SelectSeq(ndiff(Split(r), Split(h)), LAMBDA l : ~IsHint(l))}})

----------------------------------------------------------------------------
(* Feedback of the shadowing page (main.py:610-618).  A feedback line is   *)
(* named by what it says: "low", "mid" and "high" are the three tier       *)
(* lines, "function_words" the line on weak forms of the/to/and/of.        *)

TierLines == {"low", "mid", "high"}

TierBoundaryLow(sc) ==
    IF 2 * sc[1] <= sc[2] THEN "low"
    ELSE IF 4 * sc[1] <= 3 * sc[2] THEN "mid"
    ELSE "high"

\* if score < 0.5 / elif score < 0.75 / else, on the score n/d with d > 0;
\* 0.5 and 0.75 are exact floats and n/d is correctly rounded, so the float
\* comparisons agree with the comparisons of the fractions
Tier(sc) ==
    IF 2 * sc[1] < sc[2] THEN "low"
    ELSE IF 4 * sc[1] < 3 * sc[2] THEN "mid"
    ELSE "high"

\* the list ["the", "to", "and", "of", "can", "you"] of main.py:617
FunctionWords == {<<"t", "h", "e">>, <<"t", "o">>, <<"a", "n", "d">>,
                  <<"o", "f">>, <<"c", "a", "n">>, <<"y", "o", "u">>}

\* Python's  w in s  on strings: w occurs in s as a substring
Contains(s, w) ==
    \E i \in 1..(Len(s) - Len(w) + 1) : SubSeq(s, i, i + Len(w) - 1) = w

\* any(w in target.text_en.lower() for w in [...])
HasFunctionWord(text) ==
    \E w \in FunctionWords : Contains(Lower(text), w)

FeedbackExclusive(sc, text) ==
    IF HasFunctionWord(text) THEN <<"function_words">> ELSE <<Tier(sc)>>

\* the list fb built by main.py:610-618
Feedback(sc, text) ==
    <<Tier(sc)>> \o (IF HasFunctionWord(text) THEN <<"function_words">> ELSE <<>>)

\* main.py:603-618: the utterance is scored against the target sentence, its
\* word diff is rendered and the feedback lines are chosen from the score and
\* the target
Score ==
    /\ phase = "input"
    /\ score' = similarity_score(ref, hyp)
    /\ html' = diff_html(ref, hyp)
    /\ fb' = Feedback(score', ref)
    /\ phase' = "scored"
    /\ UNCHANGED <<ref, hyp, words, kept, prevScore>>

----------------------------------------------------------------------------
(* A shadowing exercise (main.py:595-604): the learner repeats the         *)
(* reference sentence, first leaving words out, then saying one more of    *)
(* its words at its place; each utterance is scored against the reference. *)

MaxWords == 5

Vocabulary == {<<"a">>, <<"b">>}

RECURSIVE SentencesUpTo(_)
SentencesUpTo(n) ==
    IF n = 0 THEN {<<>>}
    ELSE LET shorter == SentencesUpTo(n - 1)
         IN shorter \cup {Append(s, w) : s \in {x \in shorter : Len(x) = n - 1},
                                         w \in Vocabulary}

\* " ".join(ws)
RECURSIVE Join(_)
Join(ws) ==
    IF ws = <<>> THEN <<>>
    ELSE IF Len(ws) = 1 THEN ws[1]
         ELSE ws[1] \o <<" ">> \o Join(Tail(ws))

\* the words of ws at the positions in keep, in order
RECURSIVE Pick(_, _, _)
Pick(ws, keep, i) ==
    IF i > Len(ws) THEN <<>>
    ELSE (IF i \in keep THEN <<ws[i]>> ELSE <<>>) \o Pick(ws, keep, i + 1)

Utterance(ws, keep) == Join(Pick(ws, keep, 1))

\* the learner's next attempt has one more correct word, the rest unchanged
InsertWord ==
    /\ phase \in {"scored", "inserted"}
    /\ \E i \in (1..Len(words)) \ kept :
         /\ kept' = kept \cup {i}
         /\ hyp' = Utterance(words, kept')
         /\ score' = similarity_score(ref, hyp')
         /\ html' = diff_html(ref, hyp')
    /\ fb' = Feedback(score', ref)
    /\ prevScore' = score
    /\ phase' = "inserted"
    /\ UNCHANGED <<ref, words>>

----------------------------------------------------------------------------
(* extract_english_for_tts (main.py:96-110): the part of a chat reply that *)
(* is read aloud.  "FCOLON" is the full-width colon U+FF1A, "NL" the       *)
(* newline.                                                                *)

MaxReplyLen == 5
ShortMaxLen == 3
DefaultMaxLen == 600

ReplyChars == {"J", "p", ":", "FCOLON", "a", " ", "NL"}

\* jp\s*[:：] with re.IGNORECASE matches at position k of s
MarkerAt(s, k) ==
    /\ k + 1 <= Len(s)
    /\ LowerChar(s[k]) = "j" /\ LowerChar(s[k + 1]) = "p"
    /\ \E e \in (k + 2)..Len(s) :
          /\ s[e] \in {":", "FCOLON"}
          /\ \A q \in (k + 2)..(e - 1) : IsSpace(s[q])

\* (?im)^\s*jp\s*[:：] matches at position i: i starts a line, and only
\* whitespace lies between i and the marker
LineMarkerAt(s, i) ==
    /\ i = 1 \/ s[i - 1] = "NL"
    /\ \E k \in i..Len(s) :
          /\ \A q \in i..(k - 1) : IsSpace(s[q])
          /\ MarkerAt(s, k)

\* (?i)\bjp\s*[:：] matches at position k
WordMarkerAt(s, k) ==
    /\ k = 1 \/ ~IsWordChar(s[k - 1])
    /\ MarkerAt(s, k)

\* re.search: the leftmost match
Leftmost(S) == CHOOSE i \in S : \A j \in S : i <= j

\* cut = m.start(), else m2.start(), else len(full_text); as the 1-based
\* position of the first character that is cut off
CutAt(s) ==
    IF \E i \in 1..Len(s) : LineMarkerAt(s, i)
    THEN Leftmost({i \in 1..Len(s) : LineMarkerAt(s, i)})
    ELSE IF \E k \in 1..Len(s) : WordMarkerAt(s, k)
    THEN Leftmost({k \in 1..Len(s) : WordMarkerAt(s, k)})
    ELSE Len(s) + 1

\* full_text[:cut].strip() or full_text.strip()
HeadOrAll(s) ==
    IF Strip(SubSeq(s, 1, CutAt(s) - 1)) # <<>>
    THEN Strip(SubSeq(s, 1, CutAt(s) - 1))
    ELSE Strip(s)

\* main.py:96-110
extract_english_for_tts(s, n) ==
    IF s = <<>> THEN <<>>
    ELSE The({SubSeq(e, 1, IF Len(e) < n THEN Len(e) ELSE n) : e \in {HeadOrAll(s)}})

Extract ==
    /\ phase = "input"
    /\ eng' = extract_english_for_tts(full_text, max_len)
    /\ phase' = "extracted"
    /\ UNCHANGED <<full_text, max_len>>

----------------------------------------------------------------------------
(* api_client.chat (api_client.py:31-69) with utils.get_openai_api_key and *)
(* utils.get_model_name.  Python's None is the string "None" for the       *)
(* client and the record NoneValue for a returned value; an unset          *)
(* environment variable is "".                                             *)

NoneValue == [kind |-> "None", str |-> <<>>]
NotReturned == [kind |-> "notreturned", str |-> <<>>]
NoResponse == [kind |-> "notcalled", content |-> <<>>]

\* message lists chat is called with
MessageLists ==
    {<<[role |-> "system", content |-> "S"], [role |-> "user", content |-> "hi"]>>,
     <<[role |-> "system", content |-> "S"], [role |-> "user", content |-> "hi"],
       [role |-> "assistant", content |-> "Hello!"], [role |-> "user", content |-> "bye"]>>}

ModelArgs == {"", "gpt-4o"}

\* message.content of the first choice: text with blanks around it, or empty
Contents == {<<"a">>, <<" ", "a", "NL">>, <<>>, <<" ">>}

\* what client.chat.completions.create may do: raise, answer without any
\* choice, answer with content None, answer with a content string
Responses ==
    {[kind |-> "raise", content |-> <<>>], [kind |-> "nochoice", content |-> <<>>],
     [kind |-> "contentNone", content |-> <<>>]}
        \cup {[kind |-> "content", content |-> c] : c \in Contents}

\* utils.get_model_name(): OPENAI_MODEL, else the default
get_model_name == IF chat_env.model_name # "" THEN chat_env.model_name ELSE "gpt-4o-mini"

ChatCall ==
    /\ chat_pc = "idle"
    /\ messages' \in MessageLists
    /\ model' \in ModelArgs
    /\ client' = "None" /\ resp' = NoResponse /\ requests' = <<>> /\ reply' = NotReturned
    /\ chat_pc' = "make_client"
    /\ UNCHANGED chat_env

\* _make_client (31-42) and lines 52-54: without key or SDK, or when the
\* constructor raises, there is no client and chat returns None
MakeClient ==
    /\ chat_pc = "make_client"
    /\ IF chat_env.api_key = "" \/ ~chat_env.sdk
       THEN client' = "None"
       ELSE client' \in {"None", "client"}
    /\ IF client' = "None"
       THEN reply' = NoneValue /\ chat_pc' = "returned"
       ELSE reply' = reply /\ chat_pc' = "create"
    /\ UNCHANGED <<chat_env, messages, model, resp, requests>>

CreateUnguarded ==
    /\ chat_pc = "create"
    /\ model' = IF model # "" THEN model ELSE get_model_name
    /\ requests' = Append(requests, [model |-> model', messages |-> messages])
    /\ resp' \in Responses
    /\ IF resp'.kind \in {"raise", "nochoice"}
       THEN reply' = reply /\ chat_pc' = "raised"
       ELSE reply' = [kind |-> "str", str |-> Strip(resp'.content)] /\ chat_pc' = "returned"
    /\ UNCHANGED <<chat_env, messages, client>>

\* lines 56-69: one completion request; any exception of the request or of
\* reading resp.choices[0].message.content gives None
Create ==
    /\ chat_pc = "create"
    /\ model' = IF model # "" THEN model ELSE get_model_name
    /\ requests' = Append(requests, [model |-> model', messages |-> messages])
    /\ resp' \in Responses
    /\ reply' = IF resp'.kind \in {"raise", "nochoice"} THEN NoneValue
                ELSE [kind |-> "str", str |-> Strip(resp'.content)]
    /\ chat_pc' = "returned"
    /\ UNCHANGED <<chat_env, messages, client>>

\* the caller goes on to its next chat call
ChatNext ==
    /\ chat_pc \in {"returned", "raised"}
    /\ chat_pc' = "idle"
    /\ messages' = <<>> /\ model' = "" /\ client' = "None"
    /\ resp' = NoResponse /\ requests' = <<>> /\ reply' = NotReturned
    /\ UNCHANGED chat_env

----------------------------------------------------------------------------
(* The chat histories of the Daily Chat page (main.py:468-512) and of the  *)
(* Roleplay page (main.py:631-692).  A message content is a sequence of    *)
(* text pieces; one action is one script run of the page.                  *)

MaxInputs == 2

Scenarios == {"hotel", "meeting"}
Tones == {"formal", "standard"}
RoleplayKeys == Scenarios \X Tones

\* what the user types into st.chat_input
UserTexts == {<<"hi">>, <<"bye">>}

\* what llm_chat returns: None or a stripped string, possibly empty
ChatReturns == {NoneValue} \cup {[kind |-> "str", str |-> Strip(c)] : c \in Contents}

Message(role, content) == [role |-> role, content |-> content]

DailySystem == Message("system", <<"You are a friendly English conversation partner.">>)
RoleplaySystem(k) == Message("system", <<k[1], " ", k[2], " Keep replies under 120 words.">>)

\* the user messages of a history, oldest first
UserContents(h) == SelectSeq(h, LAMBDA m : m.role = "user")

local_fallback_first(h) ==
    LET last_user == IF UserContents(h) = <<>> THEN <<>>
                     ELSE UserContents(h)[1].content
    IN  <<"(local) I understood your message. You said: ">> \o last_user
            \o <<"NL", "JP: ">> \o last_user \o <<" deshita.">>

\* local_fallback_reply (62-73): echoes the last user message of the history
local_fallback_reply(h) ==
    LET last_user == IF UserContents(h) = <<>> THEN <<>>
                     ELSE UserContents(h)[Len(UserContents(h))].content
    IN  <<"(local) I understood your message. You said: ">> \o last_user
            \o <<"NL", "JP: ">> \o last_user \o <<" deshita.">>

\* lines 494-509 and 677-692: the history h after the input t, when llm_chat
\* returned r
Handle(h, t, r) ==
    LET withUser == Append(h, Message("user", t))
        content == IF r = NoneValue THEN local_fallback_reply(withUser) ELSE r.str
    IN  Append(withUser, Message("assistant", content))

\* a script run of the Daily Chat page (468-512), with or without an input
DailyRun ==
    \E t \in UserTexts \cup {<<>>} :
      \E r \in IF t = <<>> THEN {NotReturned} ELSE ChatReturns :
        LET created == IF daily_messages = <<>> THEN <<DailySystem>> ELSE daily_messages
        IN  /\ t # <<>> => inputs < MaxInputs
            /\ inputs' = IF t = <<>> THEN inputs ELSE inputs + 1
            /\ mode' = "daily"
            /\ user_text' = t
            /\ llm_result' = r
            /\ daily_messages' = IF t = <<>> THEN created ELSE Handle(created, t, r)
            /\ UNCHANGED <<roleplay_messages, key_name>>

\* a script run of the Roleplay page (631-692) with the selected scenario and tone
RoleplayRun ==
    \E k \in RoleplayKeys, t \in UserTexts \cup {<<>>} :
      \E r \in IF t = <<>> THEN {NotReturned} ELSE ChatReturns :
        LET created == IF roleplay_messages[k] = <<>> THEN <<RoleplaySystem(k)>>
                       ELSE roleplay_messages[k]
        IN  /\ t # <<>> => inputs < MaxInputs
            /\ inputs' = IF t = <<>> THEN inputs ELSE inputs + 1
            /\ mode' = "roleplay"
            /\ key_name' = k
            /\ user_text' = t
            /\ llm_result' = r
            /\ roleplay_messages' = [roleplay_messages EXCEPT
                    ![k] = IF t = <<>> THEN created ELSE Handle(created, t, r)]
            /\ UNCHANGED daily_messages

----------------------------------------------------------------------------
(* tts_cached (main.py:90-93): tts_bytes (76-87) behind st.cache_data,     *)
(* which keeps one entry per argument tuple, without ttl or max_entries.   *)

CacheLangs == {"en", "ko"}
CacheKeys == Texts \X CacheLangs

CacheAbsent == [kind |-> "absent", text |-> "", lang |-> ""]
CacheNone == [kind |-> "None", text |-> "", lang |-> ""]

\* the MP3 bytes gTTS(text=text, lang=lang) writes
GttsMp3(text, lang) == [kind |-> "bytes", text |-> text, lang |-> lang]

CacheKeyTextOnly(text, lang) == <<text, "en">>

\* the st.cache_data key of a call: its arguments
CacheKey(text, lang) == <<text, lang>>

\* a call of tts_cached: the stored value on a hit; on a miss tts_bytes runs
\* (None without gTTS or when gTTS raises) and its value is stored
TtsCached ==
    \E text \in Texts, lang \in CacheLangs :
      \E raises \in IF tts_cache[CacheKey(text, lang)] = CacheAbsent /\ gtts_ok
                    THEN BOOLEAN ELSE {FALSE} :
        LET key == CacheKey(text, lang)
            value == IF ~gtts_ok \/ raises THEN CacheNone ELSE GttsMp3(text, lang)
        IN  /\ cached_call' = <<text, lang>>
            /\ IF tts_cache[key] # CacheAbsent
               THEN /\ cached_ret' = tts_cache[key]
                    /\ UNCHANGED <<tts_cache, provider_log>>
               ELSE /\ cached_ret' = value
                    /\ tts_cache' = [tts_cache EXCEPT ![key] = value]
                    /\ provider_log' =
                          IF gtts_ok
                          THEN Append(provider_log,
                                      [text |-> text, lang |-> lang, result |-> value])
                          ELSE provider_log
            /\ UNCHANGED gtts_ok

----------------------------------------------------------------------------
(* The access counter (main.py:148-199): every browser session has its own *)
(* st.session_state and runs its script runs one after the other; all      *)
(* sessions share data/counter.db.  BEGIN IMMEDIATE and the INSERT of      *)
(* _init_counter_db need SQLite's write lock; a statement that cannot get  *)
(* it within the timeout raises "database is locked".                      *)

NumSessions == 2
MaxReruns == 3
MaxInitialViews == 1

Sessions == 1 .. NumSessions

NoValue == -1
NoRow == {}
Row(v) == {<<"page_views", v>>}

\* row[0] if row else 0 (186-188)
SelectValue ==
    IF \E r \in counters : r[1] = "page_views"
    THEN (CHOOSE r \in counters : r[1] = "page_views")[2]
    ELSE 0

\* lines 174-175: a script run calls the function; the flag is created False
PageViewsCall(s) ==
    /\ view_pc[s] \in {"idle", "returned", "raised"}
    /\ view_calls[s] < MaxReruns
    /\ view_calls' = [view_calls EXCEPT ![s] = @ + 1]
    /\ view_counted' = [view_counted EXCEPT ![s] = IF @ = "absent" THEN "False" ELSE @]
    /\ total' = [total EXCEPT ![s] = NoValue]
    /\ view_pc' = [view_pc EXCEPT ![s] = "init"]
    /\ UNCHANGED <<counters, db_lock, initial_views, wal, txn_value>>

\* _init_counter_db (151-170): INSERT OR IGNORE adds the row with 0 only when
\* there is none; then line 180 chooses the path
InitDb(s) ==
    /\ view_pc[s] = "init"
    /\ db_lock = 0
    /\ counters' = IF \E r \in counters : r[1] = "page_views" THEN counters
                   ELSE counters \cup Row(0)
    /\ view_pc' = [view_pc EXCEPT ![s] = IF view_counted[s] = "True" THEN "select" ELSE "begin"]
    /\ UNCHANGED <<db_lock, initial_views, wal, view_counted, txn_value, total, view_calls>>

BeginDeferred(s) ==
    /\ view_pc[s] = "begin"
    /\ view_pc' = [view_pc EXCEPT ![s] = "update"]
    /\ UNCHANGED <<counters, db_lock, initial_views, wal, view_counted, txn_value, total, view_calls>>

\* line 181: BEGIN IMMEDIATE takes the write lock
Begin(s) ==
    /\ view_pc[s] = "begin"
    /\ db_lock = 0
    /\ db_lock' = s
    /\ view_pc' = [view_pc EXCEPT ![s] = "update"]
    /\ UNCHANGED <<counters, initial_views, wal, view_counted, txn_value, total, view_calls>>

\* line 182: UPDATE counters SET value = value + 1, inside the transaction
Update(s) ==
    /\ view_pc[s] = "update"
    /\ txn_value' = [txn_value EXCEPT ![s] = SelectValue + 1]
    /\ view_pc' = [view_pc EXCEPT ![s] = "commit"]
    /\ UNCHANGED <<counters, db_lock, initial_views, wal, view_counted, total, view_calls>>

\* line 183: the commit publishes the written value and frees the lock
Commit(s) ==
    /\ view_pc[s] = "commit"
    /\ counters' = Row(txn_value[s])
    /\ wal' = Append(wal, s)
    /\ txn_value' = [txn_value EXCEPT ![s] = NoValue]
    /\ db_lock' = IF db_lock = s THEN 0 ELSE db_lock
    /\ view_pc' = [view_pc EXCEPT ![s] = "flag"]
    /\ UNCHANGED <<initial_views, view_counted, total, view_calls>>

SetFlagSkipped(s) ==
    /\ view_pc[s] = "flag"
    /\ view_pc' = [view_pc EXCEPT ![s] = "select"]
    /\ UNCHANGED <<counters, db_lock, initial_views, wal, view_counted, txn_value, total, view_calls>>

\* line 184
SetFlag(s) ==
    /\ view_pc[s] = "flag"
    /\ view_counted' = [view_counted EXCEPT ![s] = "True"]
    /\ view_pc' = [view_pc EXCEPT ![s] = "select"]
    /\ UNCHANGED <<counters, db_lock, initial_views, wal, txn_value, total, view_calls>>

\* lines 186-191: SELECT, return the total
Select(s) ==
    /\ view_pc[s] = "select"
    /\ total' = [total EXCEPT ![s] = SelectValue]
    /\ view_pc' = [view_pc EXCEPT ![s] = "returned"]
    /\ UNCHANGED <<counters, db_lock, initial_views, wal, view_counted, txn_value, view_calls>>

\* the INSERT of line 165 or the BEGIN IMMEDIATE of line 181 waited in vain
\* for the write lock: sqlite3.OperationalError leaves the call
DatabaseLocked(s) ==
    /\ view_pc[s] \in {"init", "begin"}
    /\ db_lock \notin {0, s}
    /\ view_pc' = [view_pc EXCEPT ![s] = "raised"]
    /\ UNCHANGED <<counters, db_lock, initial_views, wal, view_counted, txn_value, total, view_calls>>

\* UPDATE or COMMIT raised (an I/O error): conn.close() of the finally
\* (190-191) rolls the open transaction back
Rollback(s) ==
    /\ view_pc[s] \in {"update", "commit"}
    /\ txn_value' = [txn_value EXCEPT ![s] = NoValue]
    /\ db_lock' = IF db_lock = s THEN 0 ELSE db_lock
    /\ view_pc' = [view_pc EXCEPT ![s] = "raised"]
    /\ UNCHANGED <<counters, initial_views, wal, view_counted, total, view_calls>>

IdlePure ==
    /\ s_in = <<>> /\ s_out = <<>> /\ s_out2 = <<>>
    /\ ref = <<>> /\ hyp = <<>> /\ score = <<0, 0>>
    /\ words = <<>> /\ kept = {} /\ prevScore = <<0, 0>>
    /\ html = <<>> /\ fb = <<>>
    /\ phase = "none"

IdleCompare ==
    /\ s_in = <<>> /\ s_out = <<>> /\ s_out2 = <<>>
    /\ ref = <<>> /\ hyp = <<>> /\ score = <<0, 0>>
    /\ words = <<>> /\ kept = {} /\ prevScore = <<0, 0>>
    /\ html = <<>> /\ fb = <<>>

IdleExtract == full_text = <<>> /\ max_len = 0 /\ eng = <<>>

IdleChat ==
    /\ chat_env = [api_key |-> "", sdk |-> FALSE, model_name |-> ""]
    /\ chat_pc = "idle"
    /\ messages = <<>> /\ model = "" /\ client = "None"
    /\ resp = NoResponse /\ requests = <<>> /\ reply = NotReturned

IdleHistory ==
    /\ mode = "none" /\ daily_messages = <<>>
    /\ roleplay_messages = [k \in RoleplayKeys |-> <<>>]
    /\ key_name = <<>> /\ user_text = <<>> /\ llm_result = NotReturned /\ inputs = 0

IdleCache ==
    /\ gtts_ok = FALSE
    /\ tts_cache = [k \in CacheKeys |-> CacheAbsent]
    /\ provider_log = <<>> /\ cached_call = <<>> /\ cached_ret = CacheAbsent

IdleCounter ==
    /\ counters = NoRow /\ db_lock = 0 /\ initial_views = 0 /\ wal = <<>>
    /\ view_counted = [s \in Sessions |-> "absent"]
    /\ view_pc = [s \in Sessions |-> "idle"]
    /\ txn_value = [s \in Sessions |-> NoValue]
    /\ total = [s \in Sessions |-> NoValue]
    /\ view_calls = [s \in Sessions |-> 0]

IdleApp == IdleExtract /\ IdleChat /\ IdleHistory /\ IdleCache /\ IdleCounter

IdleTts ==
    /\ pc = "idle"
    /\ hasEdge = FALSE /\ ffmpegPath = FALSE /\ gttsOk = FALSE
    /\ args = NoArgs /\ audio_mp3 = None
    /\ edgeOut = NoOut /\ gttsOut = NoOut /\ ffOut = NoOut
    /\ result = NoResult /\ exc = "none" /\ ui = "none"
    /\ calls = [edge |-> 0, gtts |-> 0, ffmpeg |-> 0]

Init ==
    /\ pc = "idle"
    /\ hasEdge \in BOOLEAN /\ ffmpegPath \in BOOLEAN /\ gttsOk \in BOOLEAN
    /\ args = NoArgs /\ audio_mp3 = None
    /\ edgeOut = NoOut /\ gttsOut = NoOut /\ ffOut = NoOut
    /\ result = NoResult /\ exc = "none" /\ ui = "none"
    /\ calls = [edge |-> 0, gtts |-> 0, ffmpeg |-> 0]
    /\ IdlePure /\ IdleApp

Next ==
    \/ (Call /\ UNCHANGED <<normVars, simVars, appVars, phase>>)
    \/ (TryPrimary /\ UNCHANGED <<normVars, simVars, appVars, phase>>)
    \/ (ValidatePrimary /\ UNCHANGED <<normVars, simVars, appVars, phase>>)
    \/ (TryFallback /\ UNCHANGED <<normVars, simVars, appVars, phase>>)
    \/ (Done /\ UNCHANGED <<normVars, simVars, appVars, phase>>)
    \/ (TtsBytes /\ UNCHANGED <<normVars, simVars, appVars, phase>>)
    \/ (Render /\ UNCHANGED <<normVars, simVars, appVars, phase>>)
    \/ (NextCall /\ UNCHANGED <<normVars, simVars, appVars, phase>>)

Spec == Init /\ [][Next]_vars

InitExtract ==
    /\ IdleTts /\ IdleCompare /\ IdleChat /\ IdleHistory /\ IdleCache
    /\ IdleCounter
    /\ full_text \in StringsUpTo(ReplyChars, MaxReplyLen)
    /\ max_len \in {ShortMaxLen, DefaultMaxLen}
    /\ eng = <<>>
    /\ phase = "input"

NextExtract ==
    Extract /\ UNCHANGED <<ttsVars, normVars, simVars, chatVars, historyVars, cacheVars,
                            counterVars>>

SpecExtract == InitExtract /\ [][NextExtract]_vars

InitChat ==
    /\ IdleTts /\ IdleCompare /\ IdleExtract /\ IdleHistory /\ IdleCache
    /\ IdleCounter
    /\ chat_env \in [api_key : {"", "sk-test"}, sdk : BOOLEAN, model_name : {"", "gpt-4.1"}]
    /\ chat_pc = "idle"
    /\ messages = <<>> /\ model = "" /\ client = "None"
    /\ resp = NoResponse /\ requests = <<>> /\ reply = NotReturned
    /\ phase = "none"

NextChat ==
    \/ (ChatCall /\ UNCHANGED <<ttsVars, normVars, simVars, extractVars, historyVars, cacheVars,
                             counterVars, phase>>)
    \/ (MakeClient /\ UNCHANGED <<ttsVars, normVars, simVars, extractVars, historyVars, cacheVars,
                             counterVars, phase>>)
    \/ (Create /\ UNCHANGED <<ttsVars, normVars, simVars, extractVars, historyVars, cacheVars,
                             counterVars, phase>>)
    \/ (ChatNext /\ UNCHANGED <<ttsVars, normVars, simVars, extractVars, historyVars, cacheVars,
                             counterVars, phase>>)

SpecChat == InitChat /\ [][NextChat]_vars

InitHistory ==
    /\ IdleTts /\ IdleCompare /\ IdleExtract /\ IdleChat /\ IdleHistory /\ IdleCache
    /\ IdleCounter
    /\ phase = "none"

NextHistory ==
    \/ (DailyRun /\ UNCHANGED <<ttsVars, normVars, simVars, extractVars, chatVars, cacheVars,
                             counterVars, phase>>)
    \/ (RoleplayRun /\ UNCHANGED <<ttsVars, normVars, simVars, extractVars, chatVars, cacheVars,
                             counterVars, phase>>)

SpecHistory == InitHistory /\ [][NextHistory]_vars

InitCache ==
    /\ IdleTts /\ IdleCompare /\ IdleExtract /\ IdleChat /\ IdleHistory
    /\ IdleCounter
    /\ gtts_ok \in BOOLEAN
    /\ tts_cache = [k \in CacheKeys |-> CacheAbsent]
    /\ provider_log = <<>> /\ cached_call = <<>> /\ cached_ret = CacheAbsent
    /\ phase = "none"

NextCache ==
    TtsCached /\ UNCHANGED <<ttsVars, normVars, simVars, extractVars, chatVars,
                              historyVars, counterVars, phase>>

SpecCache == InitCache /\ [][NextCache]_vars

InitCounter ==
    /\ IdleTts /\ IdleCompare /\ IdleExtract /\ IdleChat /\ IdleHistory /\ IdleCache
    /\ counters \in {NoRow} \cup {Row(v) : v \in 0 .. MaxInitialViews}
    /\ initial_views = SelectValue
    /\ db_lock = 0 /\ wal = <<>>
    /\ view_counted = [s \in Sessions |-> "absent"]
    /\ view_pc = [s \in Sessions |-> "idle"]
    /\ txn_value = [s \in Sessions |-> NoValue]
    /\ total = [s \in Sessions |-> NoValue]
    /\ view_calls = [s \in Sessions |-> 0]
    /\ phase = "none"

otherThanCounter == <<ttsVars, normVars, simVars, extractVars, chatVars, historyVars,
                      cacheVars, phase>>

NextCounter ==
    \/ ((\E s \in Sessions : PageViewsCall(s)) /\ UNCHANGED otherThanCounter)
    \/ ((\E s \in Sessions : InitDb(s)) /\ UNCHANGED otherThanCounter)
    \/ ((\E s \in Sessions : Begin(s)) /\ UNCHANGED otherThanCounter)
    \/ ((\E s \in Sessions : Update(s)) /\ UNCHANGED otherThanCounter)
    \/ ((\E s \in Sessions : Commit(s)) /\ UNCHANGED otherThanCounter)
    \/ ((\E s \in Sessions : SetFlag(s)) /\ UNCHANGED otherThanCounter)
    \/ ((\E s \in Sessions : Select(s)) /\ UNCHANGED otherThanCounter)
    \/ ((\E s \in Sessions : DatabaseLocked(s)) /\ UNCHANGED otherThanCounter)
    \/ ((\E s \in Sessions : Rollback(s)) /\ UNCHANGED otherThanCounter)

SpecCounter == InitCounter /\ [][NextCounter]_vars

InitNorm ==
    /\ IdleTts /\ IdleApp
    /\ s_in \in StringsUpTo(NormChars, MaxLen)
    /\ s_out = <<>> /\ s_out2 = <<>>
    /\ ref = <<>> /\ hyp = <<>> /\ score = <<0, 0>>
    /\ words = <<>> /\ kept = {} /\ prevScore = <<0, 0>>
    /\ html = <<>> /\ fb = <<>>
    /\ phase = "input"

NextNorm ==
    \/ (Normalize /\ UNCHANGED <<ttsVars, simVars, appVars>>)
    \/ (NormalizeAgain /\ UNCHANGED <<ttsVars, simVars, appVars>>)

SpecNorm == InitNorm /\ [][NextNorm]_vars

\* C1: normalize_for_compare is idempotent: normalising the output of a
\* normalisation gives that output again, for every input string.
C1_Idempotent == phase = "twice" => s_out2 = s_out

\* alphanumeric characters (str.isalnum): letters, Hangul syllables and jamo
IsAlnum(c) == c \in {"a", "b", "c", "g", "k", "n", "o", "t", "y", "A", "C", "T",
                      "GA", "JEO", "NEUN", "CHO", "JUNG"}

\* C18: normalize_for_compare removes every character that is not
\* alphanumeric, not whitespace and not a Hangul syllable, and keeps every
\* character that is: apart from whitespace, the output is the lower-cased
\* NFC form of the input without its other characters, so no punctuation
\* (the underscore included) survives.
C18_StripsPunctuation ==
    phase = "once" =>
        SelectSeq(s_out, LAMBDA c : ~IsSpace(c))
            = SelectSeq(Lower(NFC(s_in)), LAMBDA c : IsAlnum(c) \/ IsHangul(c))

InitSim ==
    /\ IdleTts /\ IdleApp
    /\ s_in = <<>> /\ s_out = <<>> /\ s_out2 = <<>>
    /\ ref \in SimStrings /\ hyp \in SimStrings
    /\ score = <<0, 0>>
    /\ words = <<>> /\ kept = {} /\ prevScore = <<0, 0>>
    /\ html = <<>> /\ fb = <<>>
    /\ phase = "input"

NextSim == Score /\ UNCHANGED <<ttsVars, normVars, appVars>>

SpecSim == InitSim /\ [][NextSim]_vars

InitShadow ==
    /\ IdleTts /\ IdleApp
    /\ s_in = <<>> /\ s_out = <<>> /\ s_out2 = <<>>
    /\ words \in SentencesUpTo(MaxWords) \ {<<>>}
    /\ ref = Join(words)
    /\ kept \in SUBSET (1..Len(words))
    /\ hyp = Utterance(words, kept)
    /\ score = <<0, 0>> /\ prevScore = <<0, 0>>
    /\ html = <<>> /\ fb = <<>>
    /\ phase = "input"

NextShadow ==
    \/ (Score /\ UNCHANGED <<ttsVars, normVars, appVars>>)
    \/ (InsertWord /\ UNCHANGED <<ttsVars, normVars, appVars>>)

SpecShadow == InitShadow /\ [][NextShadow]_vars

\* C10 as claimed: a further correct word never lowers the score.
C10_Monotonic == phase = "inserted" => ~Less(score, prevScore)

\* the kept words form one contiguous run of the reference
Contiguous(keep) == \A i \in keep, j \in keep, k \in 1..Len(words) :
                        (i < k /\ k < j) => k \in keep

\* C10 as amended: a further correct word does not lower the score when the
\* utterance it completes is a contiguous run of the reference's words and is
\* shorter than 200 characters, or is the whole reference.
C10_MonotonicOnRuns ==
    (/\ phase = "inserted"
     /\ Contiguous(kept)
     /\ (Len(hyp) < 200 \/ kept = 1..Len(words)))
        => ~Less(score, prevScore)

C10_Witness ==
    /\ phase = "inserted"
    /\ Contiguous(kept)
    /\ Cardinality(kept) >= 2
    /\ kept # 1..Len(words)
    /\ Less(prevScore, score)

----------------------------------------------------------------------------
(* Feedback lines *)

Shown == phase \in {"scored", "inserted"}

\* C11: exactly one tier line per comparison: the low line when the score
\* is below 0.50, the mid line from 0.50 up to but excluding 0.75, the high
\* line from 0.75 on; 0.50 and 0.75 themselves map to mid and high.
C11_Tiers ==
    Shown =>
        /\ Len(SelectSeq(fb, LAMBDA l : l \in TierLines)) = 1
        /\ 2 * score[1] < score[2] => fb[1] = "low"
        /\ (2 * score[1] >= score[2] /\ 4 * score[1] < 3 * score[2]) => fb[1] = "mid"
        /\ 4 * score[1] >= 3 * score[2] => fb[1] = "high"

\* a comparison scoring exactly 0.75 after one scoring below 0.50
C11_Witness ==
    /\ phase = "inserted"
    /\ 2 * prevScore[1] < prevScore[2]
    /\ 4 * score[1] = 3 * score[2]
    /\ fb[1] = "high"

MaxFbWords == 2

\* "to" and "Can" are function words, "Tokyo" holds one inside a longer
\* word (A1-007 "I'm from Tokyo."), "go" holds none, "저는" is Korean
FbVocabulary == {<<"t", "o">>, <<"T", "o", "k", "y", "o">>, <<"g", "o">>,
                 <<"C", "a", "n">>, <<"JEO", "NEUN">>}

FbSentences == UNION {[1..n -> FbVocabulary] : n \in 1..MaxFbWords}

InitFeedback ==
    /\ IdleTts /\ IdleApp
    /\ s_in = <<>> /\ s_out = <<>> /\ s_out2 = <<>>
    /\ words \in FbSentences
    /\ ref = Join(words)
    /\ kept \in SUBSET (1..Len(words))
    /\ hyp = Utterance(words, kept)
    /\ score = <<0, 0>> /\ prevScore = <<0, 0>>
    /\ html = <<>> /\ fb = <<>>
    /\ phase = "input"

SpecFeedback == InitFeedback /\ [][NextShadow]_vars

\* w occurs in s with no word character next to it on either side
OccursAsWord(s, w) ==
    \E i \in 1..(Len(s) - Len(w) + 1) :
        /\ SubSeq(s, i, i + Len(w) - 1) = w
        /\ (i = 1 \/ ~IsWordChar(s[i - 1]))
        /\ (i + Len(w) - 1 = Len(s) \/ ~IsWordChar(s[i + Len(w)]))

\* C12: the function-word line is appended if and only if the reference
\* contains one of the, to, and, of, can, you as a whole word, compared
\* without regard to case; occurrences inside longer words do not count.
C12_WholeWordTrigger ==
    Shown =>
        ((\E k \in 1..Len(fb) : fb[k] = "function_words")
            <=> (\E w \in FunctionWords : OccursAsWord(Lower(ref), w)))

\* C13: the function-word line is added to the tier line and never takes
\* its place, whatever the score: the list is the tier line followed by the
\* function-word line for a reference that triggers the rule, and the tier
\* line alone for one that does not.
C13_Additive ==
    Shown =>
        /\ Len(fb) >= 1 /\ fb[1] \in TierLines
        /\ HasFunctionWord(ref) => fb = <<fb[1], "function_words">>
        /\ ~HasFunctionWord(ref) => fb = <<fb[1]>>

\* a triggering reference scored in the low tier, then in a higher one
C13_Witness ==
    /\ phase = "inserted"
    /\ HasFunctionWord(ref)
    /\ 2 * prevScore[1] < prevScore[2]
    /\ fb = <<"high", "function_words">>

\* the particles of the Korean rule
Particles == {<<"EUN">>, <<"NEUN">>, <<"I">>, <<"GA">>, <<"EUL">>, <<"REUL">>,
              <<"E">>, <<"E", "SEO">>}

\* C14: for a Korean reference holding any of the particles 은 는 이 가 을 를
\* 에 에서 as a substring, the feedback has a note on particle reduction and
\* liaison.
C14_ParticleNote ==
    (Shown /\ \E p \in Particles : Contains(ref, p))
        => \E k \in 1..Len(fb) : fb[k] = "particles"

----------------------------------------------------------------------------
(* The word diff *)

MaxTokens == 4

\* "ab" and "aab" are similar words (ratio 0.8)
DiffVocabulary == {<<"a", "b">>, <<"a", "a", "b">>}

TokenLists == UNION {[1..n -> DiffVocabulary] : n \in 0..MaxTokens}

\* the sentences of up to MaxTokens words, whitespace alone, and the word
\* "b", which is similar to neither word of the sentences
DiffStrings ==
    {Join(ws) : ws \in TokenLists} \cup {<<" ">>, <<"TAB", " ">>, <<"b">>}

InitDiff ==
    /\ IdleTts /\ IdleApp
    /\ s_in = <<>> /\ s_out = <<>> /\ s_out2 = <<>>
    /\ ref \in DiffStrings /\ hyp \in DiffStrings
    /\ words = <<>> /\ kept = {}
    /\ score = <<0, 0>> /\ prevScore = <<0, 0>>
    /\ html = <<>> /\ fb = <<>>
    /\ phase = "input"

SpecDiff == InitDiff /\ [][NextSim]_vars

\* the texts of the pieces of one class, in order
TextsOf(cls) ==
    The({[k \in 1..Len(ps) |-> ps[k].text] :
            ps \in {SelectSeq(html, LAMBDA piece : piece.cls = cls)}})

\* C15: when the two token sequences are equal, every token is emitted
\* untagged, in order, and no add or del span is emitted; this holds with
\* repeated tokens too.
C15_EqualAllKeep ==
    (phase = "scored" /\ Split(ref) = Split(hyp))
        => html = [k \in 1..Len(Split(ref)) |-> [cls |-> "keep", text |-> Split(ref)[k]]]

\* equal sequences of three or more tokens, one of them repeated
C15_Witness ==
    /\ phase = "scored"
    /\ Split(ref) = Split(hyp)
    /\ Len(html) >= 3
    /\ \E i, j \in 1..Len(html) : i < j /\ html[i].text = html[j].text /\ html[j].cls = "keep"

\* a with its k-th element left out
Without(a, k) == SubSeq(a, 1, k - 1) \o SubSeq(a, k + 1, Len(a))

\* C16: when reference and hypothesis differ in exactly one token at the
\* same position, the output has exactly one del span, holding the reference
\* token, exactly one add span, holding the hypothesis token, and every other
\* token untagged; no hint line of the delta is in the output.
C16_SingleSubstitution ==
    \A a \in {Split(ref)}, b \in {Split(hyp)} :
        (/\ phase = "scored"
         /\ Len(a) = Len(b)
         /\ Cardinality({k \in 1..Len(a) : a[k] # b[k]}) = 1)
            => \A k \in {k \in 1..Len(a) : a[k] # b[k]} :
                  /\ TextsOf("del") = <<a[k]>>
                  /\ TextsOf("add") = <<b[k]>>
                  /\ TextsOf("keep") = Without(a, k)

\* the string is empty or made of spaces and tabs only
WhitespaceOnly(s) == \A k \in 1..Len(s) : s[k] \in {" ", "TAB"}

\* C17: with an empty or whitespace-only hypothesis every reference token
\* is a del span and nothing else is emitted; with an empty reference every
\* hypothesis token is an add span and nothing else is emitted; with both
\* empty the output is empty.
C17_EmptySide ==
    \A a \in {Split(ref)}, b \in {Split(hyp)} :
        phase = "scored" =>
            /\ WhitespaceOnly(hyp)
                  => html = [k \in 1..Len(a) |-> [cls |-> "del", text |-> a[k]]]
            /\ WhitespaceOnly(ref)
                  => html = [k \in 1..Len(b) |-> [cls |-> "add", text |-> b[k]]]

\* a whitespace-only hypothesis against a reference of several words
C17_Witness ==
    /\ phase = "scored"
    /\ hyp = <<"TAB", " ">>
    /\ Len(html) >= 2
    /\ \A k \in 1..Len(html) : html[k].cls = "del"

----------------------------------------------------------------------------
(* The synthesis chain *)

InSynth == args.fn = "tts_synthesize"

\* C2: when the primary provider was attempted and raised or returned fewer
\* than 1024 bytes, and no transcoding is requested, the returned audio is
\* exactly what the secondary provider produced for the same text and
\* language, as audio/mpeg; the primary's bytes are never returned.
C2_FallbackOnWeakPrimary ==
    (/\ InSynth /\ pc = "Returned" /\ ~args.force_wav
     /\ calls.edge = 1
     /\ (edgeOut.kind = "raise" \/ edgeOut.len < 1024))
        => /\ gttsOut.kind = "bytes"
           /\ result.bytes = GttsBytes(args.text, args.lang_code, gttsOut.len)
           /\ result.bytes.src # "edge"
           /\ result.mime = "audio/mpeg"

C2_Witness ==
    /\ InSynth /\ pc = "Returned" /\ ~args.force_wav
    /\ edgeOut.kind = "bytes" /\ edgeOut.len = 0
    /\ result.bytes.src = "gtts" /\ result.bytes.len > 0

\* C3: when the primary provider returns at least 1024 bytes without raising,
\* the secondary provider is never invoked in that call, and without
\* transcoding the call returns exactly the primary's bytes.
C3_PrimaryKept ==
    (InSynth /\ edgeOut.kind = "bytes" /\ edgeOut.len >= 1024)
        => /\ calls.gtts = 0 /\ gttsOut = NoOut
           /\ pc # "Raised" /\ pc # "TryFallback"
           /\ (pc = "Returned" /\ ~args.force_wav) =>
                 /\ result.bytes = EdgeBytes(args, edgeOut.len)
                 /\ result.mime = "audio/mpeg"

C3_Witness ==
    /\ InSynth /\ pc = "Returned" /\ ~args.force_wav
    /\ edgeOut.kind = "bytes" /\ edgeOut.len = 1024
    /\ result.bytes.src = "edge" /\ result.bytes.len = 1024

\* C4 as claimed: when no provider delivers (the primary is skipped, raises or
\* is under the threshold, and the secondary raises or is not installed), the
\* call ends by returning a null or empty result and raises nothing, in
\* tts_synthesize as in tts_bytes.
C4_NullOnTotalFailure ==
    (/\ pc \in {"Returned", "Raised"}
     /\ args.fn \in {"tts_synthesize", "tts_bytes"}
     /\ ~PrimaryAccepted(edgeOut)
     /\ (gttsOut.kind = "raise" \/ (args.fn = "tts_bytes" /\ ~gttsOk)))
        => /\ pc = "Returned" /\ exc = "none"
           /\ result.set
           /\ (result.bytes = None \/ result.bytes.len = 0)

\* C5: an exception of the secondary provider is not absorbed by
\* tts_synthesize, and it is the only provider exception that escapes: a
\* raising primary provider or transcoder never ends the call with an exception.
C5_OnlySecondaryEscapes ==
    InSynth =>
        /\ (gttsOut.kind = "raise" => (pc = "Raised" /\ exc = "gtts" /\ ~result.set))
        /\ (pc = "Raised" => (exc = "gtts" /\ gttsOut.kind = "raise"))
        /\ (exc # "none" => exc = "gtts")
        /\ ((edgeOut.kind = "raise" \/ ffOut.kind = "raise") /\ gttsOut.kind # "raise")
              => (pc # "Raised" /\ exc = "none")

C5_Witness ==
    /\ InSynth /\ pc = "Raised" /\ exc = "gtts"
    /\ edgeOut.kind = "raise" /\ gttsOut.kind = "raise"

\* C6: with force_wav, when the transcoder is unavailable, raises, exits
\* non-zero or yields 44 bytes or fewer, the call returns the untranscoded
\* bytes as audio/mpeg and raises nothing; audio/wav is returned exactly when
\* transcoding was requested and succeeded, with the transcoder's output.
C6_TranscodeFallback ==
    (InSynth /\ pc = "Returned") =>
        /\ exc = "none"
        /\ result.mime \in {"audio/wav", "audio/mpeg"}
        /\ (result.mime = "audio/wav") <=>
              (/\ args.force_wav /\ ffmpegPath
               /\ ffOut.kind = "exit" /\ ffOut.rc = 0 /\ ffOut.len > 44)
        /\ (result.mime = "audio/wav") => result.bytes = WavBytes(audio_mp3, ffOut.len)
        /\ (result.mime = "audio/mpeg") => result.bytes = audio_mp3
        /\ ~ffmpegPath => calls.ffmpeg = 0

C6_Witness ==
    /\ InSynth /\ pc = "Returned" /\ args.force_wav /\ ffmpegPath
    /\ ffOut.kind = "exit" /\ ffOut.rc = 0 /\ ffOut.len = 44
    /\ result.mime = "audio/mpeg" /\ result.bytes = audio_mp3

----------------------------------------------------------------------------
(* The similarity score *)

CharsOf(s) == {s[i] : i \in 1..Len(s)}

\* C7: the score is 1.0 exactly when reference and hypothesis are identical
\* after lowercasing and trimming; two empty strings score 1.0.
C7_OneIffIdentical ==
    phase = "scored" =>
        (IsOne(score) <=> Strip(Lower(ref)) = Strip(Lower(hyp)))

C7_Witness ==
    /\ phase = "scored" /\ IsOne(score)
    /\ ref # hyp /\ Len(ref) # Len(hyp) /\ "A" \in CharsOf(ref)

\* C8 as claimed: the score is 0.0 exactly when the lowercased, trimmed inputs
\* have no character in common, except that two empty inputs score 1.0.
C8_ZeroIffDisjoint ==
    phase = "scored" =>
        LET a == Strip(Lower(ref))
            b == Strip(Lower(hyp))
        IN IF a = <<>> /\ b = <<>> THEN IsOne(score)
           ELSE IsZero(score) <=> (CharsOf(a) \cap CharsOf(b) = {})

\* C9 as claimed: two strings that differ only in letter case and in
\* punctuation characters score 1.0.
C9_CasePunctInvariant ==
    (phase = "scored" /\ RemovePunct(Lower(ref)) = RemovePunct(Lower(hyp)))
        => IsOne(score)

----------------------------------------------------------------------------
(* The synthesis chain: which provider is asked, and for what *)

\* C19: when the primary provider is disabled by configuration (force_gtts
\* set, prefer_edge unset, Edge-TTS not installed, or no voice resolving for
\* the language) it is never invoked: the call goes directly to the secondary
\* provider, which is invoked exactly once.
C19_DisabledPrimarySkipped ==
    (/\ InSynth
     /\ \/ args.force_gtts \/ ~args.prefer_edge \/ ~hasEdge
        \/ ResolveVoice(args.lang_code, args.edge_voice) = "")
        => /\ pc \in {"TryFallback", "Done", "Raised", "Returned"}
           /\ calls.edge = 0 /\ edgeOut = NoOut
           /\ calls.gtts = (IF pc = "TryFallback" THEN 0 ELSE 1)

\* a finished call with force_gtts set although the primary was preferred and
\* installed
C19_Witness ==
    /\ InSynth /\ pc = "Returned"
    /\ args.force_gtts /\ args.prefer_edge /\ hasEdge
    /\ calls.edge = 0 /\ calls.gtts = 1

\* C20: rate_pct reaches only the primary provider: a result that comes from
\* the secondary provider is the audio made for (text, language) alone, as
\* audio/mpeg or transcoded as audio/wav, the same for every rate_pct.
C20_RateOnlyPrimary ==
    (InSynth /\ pc = "Returned" /\ calls.gtts = 1)
        => \A req \in {[src |-> "gtts", text |-> args.text,
                         lang |-> get_lang_conf(args.lang_code).tts,
                         voice |-> "", rate |-> 0, len |-> gttsOut.len]} :
              \/ result = [set |-> TRUE, bytes |-> req, mime |-> "audio/mpeg"]
              \/ result = [set |-> TRUE,
                           bytes |-> [req EXCEPT !.src = "ffmpeg", !.len = ffOut.len],
                           mime |-> "audio/wav"]

\* a call with a non-zero rate whose primary attempt failed
C20_Witness ==
    /\ InSynth /\ pc = "Returned"
    /\ args.rate_pct = 50
    /\ calls.edge = 1 /\ calls.gtts = 1
    /\ result.bytes.src = "gtts"

\* a running tts_synthesize call goes on to its next statement
SynthStep ==
    (TryPrimary \/ ValidatePrimary \/ TryFallback \/ Done)
        /\ UNCHANGED <<normVars, simVars, appVars, phase>>

SpecLive == Spec /\ WF_vars(SynthStep)

\* no provider is asked twice, and the transcoder runs only on existing audio
ChainShape ==
    InSynth =>
        /\ calls.edge <= 1 /\ calls.gtts <= 1 /\ calls.ffmpeg <= 1
        /\ calls.ffmpeg = 1 => (audio_mp3 # None /\ pc = "Returned")
        /\ calls.gtts = 1 => (calls.edge = 0 \/ ~PrimaryAccepted(edgeOut))
        /\ pc = "Returned" => (result.set /\ exc = "none")
        /\ pc = "Raised" => (~result.set /\ exc = "gtts" /\ gttsOut.kind = "raise")

\* C26: every tts_synthesize call runs TryPrimary, ValidatePrimary, then Done
\* or TryFallback and Done, without loops: each provider and the transcoder
\* is invoked at most once, the transcoder only once audio exists, and the
\* call always ends in a returned (bytes, mime) pair or in the secondary
\* provider's exception.
C26_ChainEnds ==
    /\ []ChainShape
    /\ (InSynth /\ pc \in {"TryPrimary", "ValidatePrimary", "TryFallback", "Done"})
          ~> (InSynth /\ pc \in {"Returned", "Raised"})

\* a call that asked both providers and the transcoder, once each
C26_Witness ==
    /\ InSynth /\ pc = "Returned"
    /\ calls = [edge |-> 1, gtts |-> 1, ffmpeg |-> 1]

----------------------------------------------------------------------------
(* The word diff as a merge *)

\* the texts of the pieces of either class, in output order
MergedTexts(c1, c2) ==
    The({[k \in 1..Len(ps) |-> ps[k].text] :
            ps \in {SelectSeq(html, LAMBDA piece : piece.cls \in {c1, c2})}})

\* C28: the keep and del tokens of the output, in output order, are exactly
\* the reference's tokens, and the keep and add tokens are exactly the
\* hypothesis's tokens: no token is lost, duplicated or reordered.
C28_FaithfulMerge ==
    phase = "scored" =>
        /\ MergedTexts("keep", "del") = Split(ref)
        /\ MergedTexts("keep", "add") = Split(hyp)

\* an output that interleaves kept, added and deleted words
C28_Witness ==
    /\ phase = "scored"
    /\ \E i, j, k \in 1..Len(html) :
          /\ i < j /\ j < k
          /\ html[i].cls = "add" /\ html[j].cls = "keep" /\ html[k].cls = "del"
    /\ Len(MergedTexts("keep", "del")) >= 3

----------------------------------------------------------------------------
(* The text that is read aloud *)

\* a 'JP:' or 'JP：' marker, in any letter case, starts at position k
JpMarkerAt(s, k) ==
    /\ k + 2 <= Len(s)
    /\ LowerChar(s[k]) = "j" /\ LowerChar(s[k + 1]) = "p" /\ s[k + 2] \in {":", "FCOLON"}
    /\ k = 1 \/ ~IsWordChar(s[k - 1])

\* C24: for a reply holding a JP: marker the returned text holds nothing
\* from the (first) marker onward, also when the marker is the first
\* non-blank content, and the returned text is never longer than max_len.
C24_JapaneseExcluded ==
    phase = "extracted" =>
        /\ Len(eng) <= max_len
        /\ \A m \in 1..Len(full_text) :
              (JpMarkerAt(full_text, m) /\ \A k \in 1..(m - 1) : ~JpMarkerAt(full_text, k))
                  => Contains(SubSeq(full_text, 1, m - 1), eng)
----------------------------------------------------------------------------
\* s has no blank at either end
Trimmed(s) == s = <<>> \/ (~IsSpace(s[1]) /\ ~IsSpace(s[Len(s)]))

----------------------------------------------------------------------------
\* h is absent, or one system message followed by user/assistant pairs
HistoryShape(h) ==
    h = <<>> \/
        /\ h[1].role = "system"
        /\ Len(h) % 2 = 1
        /\ \A i \in 2 .. Len(h) : h[i].role = IF i % 2 = 0 THEN "user" ELSE "assistant"

\* the local reply that echoes the text t
EchoReply(t) ==
    <<"(local) I understood your message. You said: ">> \o t
        \o <<"NL", "JP: ">> \o t \o <<" deshita.">>

\* h2 is h (created when absent) with the user message t and the assistant
\* message c appended, and nothing else changed
AppendedPair(h, h2, t, c) ==
    /\ Len(h2) = (IF h = <<>> THEN 1 ELSE Len(h)) + 2
    /\ \A i \in 1 .. Len(h) : h2[i] = h[i]
    /\ h2[Len(h2) - 1] = [role |-> "user", content |-> t]
    /\ h2[Len(h2)] = [role |-> "assistant", content |-> c]

\* h2 is h, or h created with its system message
NoMessageAdded(h, h2) == IF h = <<>> THEN Len(h2) = 1 ELSE h2 = h

----------------------------------------------------------------------------
\* the syntheses of the log requested for the arguments (text, lang), oldest first
SynthesesOf(log, text, lang) ==
    SelectSeq(log, LAMBDA e : e.text = text /\ e.lang = lang)

----------------------------------------------------------------------------
\* the increments of the log that session s committed
IncrementsBy(log, s) == Len(SelectSeq(log, LAMBDA x : x = s))

Quiescent == \A s \in Sessions : view_pc[s] \in {"idle", "returned", "raised"}

\* the sessions whose view_counted flag is true
Counted == {s \in Sessions : view_counted[s] = "True"}

====
